---- MODULE Spec2Model ----
(***************************************************************************)
(* Model of src/app.py (korhubdev/metacomm): the utterance segmenter, the  *)
(* result reconciler and the Streamlit session around the model call.      *)
(*                                                                         *)
(* A Python str is a sequence of one-character strings.  The characters    *)
(* U+2013 and U+2014 are written "EN_DASH" and "EM_DASH".  An Optional     *)
(* value is None or Str(s).                                                *)
(***************************************************************************)
EXTENDS Integers, Sequences, FiniteSets, TLC

VARIABLES
    segRaw,        \* argument of split_script_to_utterances
    segOut,        \* its return value
    segDone,       \* the call has returned
    dedIn,         \* argument of dedupe_results_by_utterance_id
    dedOut,        \* its return value
    dedDone,       \* the call has returned
    analysis,      \* st.session_state.analysis
    utterances,    \* st.session_state.utterances
    focus_id,      \* st.session_state.focus_id
    raw_script,    \* st.session_state.raw_script
    analysisFor,   \* the utterance list handed to the model call that produced analysis
    run            \* what the last script run did

vars == <<segRaw, segOut, segDone, dedIn, dedOut, dedDone,
          analysis, utterances, focus_id, raw_script, analysisFor, run>>

segVars == <<segRaw, segOut, segDone>>
dedVars == <<dedIn, dedOut, dedDone>>
appVars == <<analysis, utterances, focus_id, raw_script, analysisFor, run>>

-----------------------------------------------------------------------------
(* Python values *)

None == [tag |-> "None"]
Str(s) == [tag |-> "str", val |-> s]
List(xs) == [tag |-> "list", items |-> xs]
Num(n) == [tag |-> "int", val |-> n]

\* a dict is a record of its keys; every other value carries a tag
IsDict(v) == "tag" \notin DOMAIN v

\* bool(v)
Truthy(v) ==
    IF IsDict(v) THEN DOMAIN v # {}
    ELSE CASE v.tag = "None" -> FALSE
           [] v.tag = "str" -> v.val # <<>>
           [] v.tag = "list" -> v.items # <<>>
           [] v.tag = "int" -> v.val # 0

U1 == <<"u", "1">>
U2 == <<"u", "2">>
U3 == <<"u", "3">>

Min(S) == CHOOSE x \in S : \A y \in S : x <= y
Max(S) == CHOOSE x \in S : \A y \in S : x >= y

-----------------------------------------------------------------------------
(* Bounds of the checked input spaces *)

MaxFrags == 4
MaxRecords == 3
MaxLines == 2

-----------------------------------------------------------------------------
(* str methods and the regular expressions *)

IsSpace(c) == c \in {" ", "\t", "\n", "\r"}
IsLineBreak(c) == c \in {"\n", "\r"}
IsDigit(c) == c \in {"0", "1", "2", "3", "4", "5", "6", "7", "8", "9"}
IsDash(c) == c \in {"-", "EN_DASH", "EM_DASH"}

RECURSIVE Concat(_)
Concat(ss) == IF ss = <<>> THEN <<>> ELSE Head(ss) \o Concat(Tail(ss))

\* s[p..], the rest of s from position p (empty when p is past the end)
From(s, p) == SubSeq(s, p, Len(s))

\* str.splitlines(): "\r\n" is one boundary, a final boundary opens no line
RECURSIVE splitlines(_)
splitlines(s) ==
    IF s = <<>> THEN <<>>
    ELSE LET brk == {i \in 1..Len(s) : IsLineBreak(s[i])}
         IN IF brk = {} THEN <<s>>
            ELSE LET i == Min(brk)
                     n == IF s[i] = "\r" /\ i < Len(s) /\ s[i+1] = "\n"
                          THEN i + 2 ELSE i + 1
                 IN <<SubSeq(s, 1, i - 1)>> \o splitlines(From(s, n))

\* str.strip()
strip(s) ==
    LET keep == {i \in 1..Len(s) : ~IsSpace(s[i])}
    IN IF keep = {} THEN <<>> ELSE SubSeq(s, Min(keep), Max(keep))

\* greedy \s* from position p: the first position at or after p that is no whitespace
SkipSpaces(s, p) ==
    Min({i \in p..(Len(s) + 1) : i = Len(s) + 1 \/ ~IsSpace(s[i])})

DigitsAt(s, p, n) == p + n - 1 <= Len(s) /\ \A i \in p..(p + n - 1) : IsDigit(s[i])
CharAt(s, p, c) == p <= Len(s) /\ s[p] = c

\* TokenEnd without the optional seconds group
TokenEndNoSeconds(s, p, h, sec) ==
    IF ~sec /\ DigitsAt(s, p, h) /\ CharAt(s, p + h, ":") /\ DigitsAt(s, p + h + 1, 2)
    THEN p + h + 3
    ELSE 0

\* \d{h}:\d{2} and, when sec, :\d{2}, at position p: the position after it, or 0
TokenEnd(s, p, h, sec) ==
    IF DigitsAt(s, p, h) /\ CharAt(s, p + h, ":") /\ DigitsAt(s, p + h + 1, 2)
    THEN IF sec
         THEN IF CharAt(s, p + h + 3, ":") /\ DigitsAt(s, p + h + 4, 2)
              THEN p + h + 6 ELSE 0
         ELSE p + h + 3
    ELSE 0

\* the order in which the matcher tries (\d{1,2}:\d{2}(?::\d{2})?): greedy first
TokenTries == << [h |-> 2, sec |-> TRUE], [h |-> 2, sec |-> FALSE],
                 [h |-> 1, sec |-> TRUE], [h |-> 1, sec |-> FALSE] >>

NoMatch == [matched |-> FALSE, g1 |-> <<>>, g2 |-> <<>>]

\* (.*)$ from position p: "." matches no "\n"
TailMatches(s, p) == \A i \in p..Len(s) : s[i] # "\n"

\* r"^\s*\[(\d{1,2}:\d{2}(?::\d{2})?)\]\s*(.*)$"
MatchBracketed(ln) ==
    LET p0 == SkipSpaces(ln, 1)
        End(k) == TokenEnd(ln, p0 + 1, TokenTries[k].h, TokenTries[k].sec)
        ok == {k \in 1..Len(TokenTries) :
                  /\ CharAt(ln, p0, "[")
                  /\ End(k) > 0
                  /\ CharAt(ln, End(k), "]")
                  /\ TailMatches(ln, SkipSpaces(ln, End(k) + 1))}
    IN IF ok = {} THEN NoMatch
       ELSE LET e == End(Min(ok))
            IN [matched |-> TRUE,
                g1 |-> SubSeq(ln, p0 + 1, e - 1),
                g2 |-> From(ln, SkipSpaces(ln, e + 1))]

\* r"^\s*(\d{1,2}:\d{2}(?::\d{2})?)\s*[-EN_DASH EM_DASH]\s*(.*)$"
MatchDashed(ln) ==
    LET p0 == SkipSpaces(ln, 1)
        End(k) == TokenEnd(ln, p0, TokenTries[k].h, TokenTries[k].sec)
        Dash(k) == SkipSpaces(ln, End(k))
        ok == {k \in 1..Len(TokenTries) :
                  /\ End(k) > 0
                  /\ Dash(k) <= Len(ln)
                  /\ IsDash(ln[Dash(k)])
                  /\ TailMatches(ln, SkipSpaces(ln, Dash(k) + 1))}
    IN IF ok = {} THEN NoMatch
       ELSE LET k == Min(ok)
            IN [matched |-> TRUE,
                g1 |-> SubSeq(ln, p0, End(k) - 1),
                g2 |-> From(ln, SkipSpaces(ln, Dash(k) + 1))]

TIME_PATTERNS == <<"BRACKETED", "DASHED">>

re_match(pat, ln) ==
    IF pat = "BRACKETED" THEN MatchBracketed(ln) ELSE MatchDashed(ln)

\* str(i) for i >= 0
RECURSIVE str(_)
str(i) ==
    LET d == <<"0", "1", "2", "3", "4", "5", "6", "7", "8", "9">>[(i % 10) + 1]
    IN IF i < 10 THEN <<d>> ELSE Append(str(i \div 10), d)

\* the body of the loop over enumerate(lines, start=1)
Utterance(i, ln) ==
    LET hit == {k \in 1..Len(TIME_PATTERNS) : re_match(TIME_PATTERNS[k], ln).matched}
        m == re_match(TIME_PATTERNS[Min(hit)], ln)
    IN [id |-> <<"u">> \o str(i),
        line_no |-> i,
        time |-> IF hit = {} THEN None ELSE Str(m.g1),
        text |-> IF hit = {} THEN ln ELSE strip(m.g2)]

\* lines = [ln.strip() for ln in raw.splitlines()]; lines = [ln for ln in lines if ln]
StrippedLines(raw) ==
    LET ls == splitlines(raw) IN [k \in 1..Len(ls) |-> strip(ls[k])]

\* NonEmptyLines without the filter of line 48
NonEmptyLinesUnfiltered(raw) == StrippedLines(raw)

NonEmptyLines(raw) == SelectSeq(StrippedLines(raw), LAMBDA ln : ln # <<>>)

\* split_script_to_utterances numbering the lines before the blank ones are dropped
split_numbering_blank_lines(raw) ==
    LET ls == StrippedLines(raw)
        all == [i \in 1..Len(ls) |-> Utterance(i, ls[i])]
    IN SelectSeq(all, LAMBDA u : ls[u.line_no] # <<>>)

split_script_to_utterances(raw) ==
    LET lines == NonEmptyLines(raw)
    IN [i \in 1..Len(lines) |-> Utterance(i, lines[i])]

-----------------------------------------------------------------------------
(* dedupe_results_by_utterance_id *)

\* r.get("utterance_id"): a verdict record is a dict, here a TLA+ record
GetUid(r) == IF "utterance_id" \in DOMAIN r THEN r.utterance_id ELSE None

Keys(d) == {d[k].key : k \in 1..Len(d)}

\* DictSet keeping the value already stored under the key (first occurrence wins)
DictSetKeepFirst(d, key, value) ==
    IF key \in Keys(d) THEN d ELSE Append(d, [key |-> key, value |-> value])

\* DictSet moving an overwritten key to the end (order of last occurrence)
DictSetMoveToEnd(d, key, value) ==
    Append(SelectSeq(d, LAMBDA e : e.key # key), [key |-> key, value |-> value])

\* dedup[uid] = r on an insertion-ordered dict, kept as a sequence of (key, value):
\* a key already present keeps its position and takes the new value
DictSet(d, key, value) ==
    IF key \in Keys(d)
    THEN [k \in 1..Len(d) |-> IF d[k].key = key THEN [key |-> key, value |-> value]
                                                ELSE d[k]]
    ELSE Append(d, [key |-> key, value |-> value])

\* the loop "for r in results: uid = r.get(...); if uid: dedup[uid] = r"
RECURSIVE DedupLoop(_, _)
DedupLoop(d, results) ==
    IF results = <<>> THEN d
    ELSE LET r == Head(results)
             uid == GetUid(r)
         IN DedupLoop(IF Truthy(uid) THEN DictSet(d, uid.val, r) ELSE d,
                      Tail(results))

\* list(dedup.values())
DictValues(d) == [k \in 1..Len(d) |-> d[k].value]

dedupe_results_by_utterance_id(results) == DictValues(DedupLoop(<<>>, results))

-----------------------------------------------------------------------------
(* Input spaces of the two pure functions *)

Fragments == { <<"[">>, <<"]">>, <<"1", ":", "2", "3">>, <<":", "4", "5">>, <<"1">>,
               <<" ">>, <<"-">>, <<"EN_DASH">>, <<"x">>, <<"\n">> }

SegInputs == {Concat(fs) : fs \in UNION {[1..n -> Fragments] : n \in 0..MaxFrags}}

Verdicts == {"CLEAR", "VIOLATION"}

\* verdict records with an id, with an empty id, and with no utterance_id key
VerdictRecords ==
    [utterance_id : {Str(U1), Str(U2), Str(U3), Str(<<>>), None}, verdict : Verdicts]
        \cup [verdict : Verdicts]

DedInputs == UNION {[1..n -> VerdictRecords] : n \in 0..MaxRecords}

-----------------------------------------------------------------------------
(* Specification of the segmenter alone *)

AppIdle ==
    /\ analysis = None
    /\ utterances = <<>>
    /\ focus_id = None
    /\ raw_script = <<>>
    /\ analysisFor = <<>>
    /\ run = [kind |-> "start"]

SegIdle == segRaw = <<>> /\ segOut = <<>> /\ segDone = FALSE
DedIdle == dedIn = <<>> /\ dedOut = <<>> /\ dedDone = FALSE

InitSeg ==
    /\ segRaw \in SegInputs
    /\ segOut = <<>>
    /\ segDone = FALSE
    /\ DedIdle
    /\ AppIdle

Segment ==
    /\ ~segDone
    /\ segOut' = split_script_to_utterances(segRaw)
    /\ segDone' = TRUE
    /\ UNCHANGED <<segRaw, dedVars, appVars>>

NextSeg == Segment

SpecSeg == InitSeg /\ [][NextSeg]_vars

-----------------------------------------------------------------------------
(* Specification of the reconciler alone *)

InitDed ==
    /\ dedIn \in DedInputs
    /\ dedOut = <<>>
    /\ dedDone = FALSE
    /\ SegIdle
    /\ AppIdle

Dedupe ==
    /\ ~dedDone
    /\ dedOut' = dedupe_results_by_utterance_id(dedIn)
    /\ dedDone' = TRUE
    /\ UNCHANGED <<dedIn, segVars, appVars>>

NextDed == Dedupe

SpecDed == InitDed /\ [][NextDed]_vars

-----------------------------------------------------------------------------
(* The model call *)

\* replies of the provider, as the text of resp.output_text
Replies ==
    { "I cannot help with that",
      "[1]",
      "[]",
      "{\"results\": [1]}",
      "{\"results\": \"u1\"}",
      "{\"summary\": \"ok\", \"results\": []}",
      "{\"summary\": {\"risk_level\": \"LOW\"}}",
      "{\"results\": [{\"utterance_id\": [\"u1\"]}]}",
      "{\"results\": [{\"utterance_id\": \"u1\", \"verdict\": \"CLEAR\"}, {\"utterance_id\": \"u2\", \"verdict\": \"CLEAR\"}, {\"utterance_id\": \"u1\", \"verdict\": \"VIOLATION\"}]}",
      "{\"results\": [{\"utterance_id\": \"u3\", \"verdict\": \"CAUTION\"}, {\"verdict\": \"CLEAR\"}, {\"utterance_id\": \"\", \"verdict\": \"CLEAR\"}]}" }

JsonError == [ok |-> FALSE, value |-> None]
Json(v) == [ok |-> TRUE, value |-> v]

\* json.loads(raw) on the replies above
json_loads(raw) ==
    CASE raw = "[1]" -> Json(List(<<Num(1)>>))
      [] raw = "[]" -> Json(List(<<>>))
      [] raw = "{\"results\": [1]}" -> Json([results |-> List(<<Num(1)>>)])
      [] raw = "{\"results\": \"u1\"}" -> Json([results |-> Str(U1)])
      [] raw = "{\"summary\": \"ok\", \"results\": []}" ->
             Json([summary |-> Str(<<"o", "k">>), results |-> List(<<>>)])
      [] raw = "{\"summary\": {\"risk_level\": \"LOW\"}}" ->
             Json([summary |-> [risk_level |-> Str(<<"L", "O", "W">>)]])
      [] raw = "{\"results\": [{\"utterance_id\": [\"u1\"]}]}" ->
             Json([results |-> List(<<[utterance_id |-> List(<<Str(U1)>>)]>>)])
      [] raw = "{\"results\": [{\"utterance_id\": \"u1\", \"verdict\": \"CLEAR\"}, {\"utterance_id\": \"u2\", \"verdict\": \"CLEAR\"}, {\"utterance_id\": \"u1\", \"verdict\": \"VIOLATION\"}]}" ->
             Json([results |-> List(<<[utterance_id |-> Str(U1), verdict |-> "CLEAR"],
                                      [utterance_id |-> Str(U2), verdict |-> "CLEAR"],
                                      [utterance_id |-> Str(U1), verdict |-> "VIOLATION"]>>)])
      [] raw = "{\"results\": [{\"utterance_id\": \"u3\", \"verdict\": \"CAUTION\"}, {\"verdict\": \"CLEAR\"}, {\"utterance_id\": \"\", \"verdict\": \"CLEAR\"}]}" ->
             Json([results |-> List(<<[utterance_id |-> Str(U3), verdict |-> "CAUTION"],
                                      [verdict |-> "CLEAR"],
                                      [utterance_id |-> Str(<<>>), verdict |-> "CLEAR"]>>)])
      [] OTHER -> JsonError

\* what the provider does with one request: it fails, or it replies
ProviderOutcomes == {[fails |-> TRUE, text |-> ""]} \cup [fails : {FALSE}, text : Replies]

\* the result of a call: a returned value or a raised exception, the text the
\* exception message carries after "---raw---", and the requests made
Returned(v, n) == [raised |-> FALSE, exc |-> "", raw |-> "", value |-> v, calls |-> n]
Raised(e, raw, n) == [raised |-> TRUE, exc |-> e, raw |-> raw, value |-> None, calls |-> n]

call_openai_for_analysis(hasKey, provider) ==
    IF ~hasKey THEN Raised("RuntimeError", "", 0)
    ELSE IF provider.fails THEN Raised("APIError", "", 1)
    ELSE LET parsed == json_loads(provider.text)
         IN IF parsed.ok THEN Returned(parsed.value, 1)
            ELSE Raised("RuntimeError", provider.text, 1)

-----------------------------------------------------------------------------
(* The results pane *)

\* "for r in v": the elements, or a TypeError
Iterable(v) == IsDict(v) \/ v.tag \in {"list", "str"}
Elements(v) ==
    IF IsDict(v) THEN {Str(<<k>>) : k \in DOMAIN v}
    ELSE IF v.tag = "list" THEN {v.items[k] : k \in 1..Len(v.items)}
    ELSE {Str(<<v.val[k]>>) : k \in 1..Len(v.val)}

\* d.get(key, default) on a dict
Get(d, key, default) == IF key \in DOMAIN d THEN d[key] ELSE default

Hashable(v) == ~IsDict(v) /\ v.tag # "list"

\* dedupe_results_by_utterance_id(results) raises: results cannot be iterated, an
\* element has no .get, or a truthy utterance_id cannot be a dict key
DedupeRaises(results) ==
    \/ ~Iterable(results)
    \/ \E r \in Elements(results) :
           \/ ~IsDict(r)
           \/ Truthy(GetUid(r)) /\ ~Hashable(GetUid(r))

\* lines 245-276 raise: analysis.get, the dedupe, or summ.get
RenderRaises(a) ==
    /\ Truthy(a)
    /\ \/ ~IsDict(a)
       \/ DedupeRaises(Get(a, "results", List(<<>>)))
       \/ ~IsDict(Get(a, "summary", [risk_level |-> Str(<<>>)]))

\* the deduplicated results the right pane lists, one jump button each
RenderedResults(a) ==
    IF ~Truthy(a) \/ RenderRaises(a) THEN <<>>
    ELSE dedupe_results_by_utterance_id(Get(a, "results", List(<<>>)).items)

-----------------------------------------------------------------------------
(* The script runs of a session *)

\* n lines "x", and a text of blank lines only
Script(n) == Concat([k \in 1..n |-> <<"x", "\n">>])
AppInputs == {Script(n) : n \in 0..MaxLines} \cup {<<" ", "\n", " ">>}

\* "except RuntimeError" in place of "except Exception"
CaughtOnlyRuntimeError(exc) == exc = "RuntimeError"

\* "except Exception as e" (line 236)
Caught(exc) == exc \in {"RuntimeError", "APIError"}

\* a handler without the check of line 228
NoUtterancesUnchecked(utts) == FALSE

\* "if not utterances" (line 228)
NoUtterances(utts) == utts = <<>>

\* a handler without line 235
FocusAfterSuccessKept(focus) == focus

\* st.session_state.focus_id = None (line 235)
FocusAfterSuccess(focus) == None

\* the record of a script run that made no model call
NoProvider == [fails |-> TRUE, text |-> ""]
Idle(kind, renderRaised) ==
    [kind |-> kind, hasKey |-> FALSE, provider |-> NoProvider, calls |-> 0,
     notice |-> "none", noticeRaw |-> "", uncaught |-> FALSE,
     renderRaised |-> renderRaised]

Init ==
    /\ analysis = None
    /\ utterances = <<>>
    /\ focus_id = None
    /\ raw_script = <<>>
    /\ analysisFor = <<>>
    /\ run = Idle("start", FALSE)
    /\ SegIdle
    /\ DedIdle

\* a script run with the analyze button pressed (lines 223-237), then the results pane
Analyze(raw, hasKey, provider) ==
    LET utts == split_script_to_utterances(raw)
        res == call_openai_for_analysis(hasKey, provider)
        called == ~NoUtterances(utts)
        stored == called /\ ~res.raised
        uncaught == called /\ res.raised /\ ~Caught(res.exc)
    IN /\ raw_script' = raw
       /\ utterances' = utts
       /\ analysis' = IF stored THEN res.value ELSE analysis
       /\ focus_id' = IF stored THEN FocusAfterSuccess(focus_id) ELSE focus_id
       /\ analysisFor' = IF stored THEN utts ELSE analysisFor
       /\ run' = [kind |-> "analyze",
                  calls |-> IF called THEN res.calls ELSE 0,
                  notice |-> IF ~called THEN "warning"
                             ELSE IF res.raised /\ ~uncaught THEN "error" ELSE "none",
                  noticeRaw |-> IF called /\ res.raised THEN res.raw ELSE "",
                  hasKey |-> hasKey,
                  provider |-> provider,
                  uncaught |-> uncaught,
                  renderRaised |-> ~uncaught /\ RenderRaises(analysis')]
       /\ UNCHANGED <<segVars, dedVars>>

\* a script run with the idx-th jump button pressed (lines 310-312), then the rerun
Jump(idx) ==
    /\ idx \in 1..Len(RenderedResults(analysis))
    /\ focus_id' = Get(RenderedResults(analysis)[idx], "utterance_id",
                       Str(<<"u", "n", "k", "n", "o", "w", "n">>))
    /\ run' = Idle("jump", FALSE)
    /\ UNCHANGED <<analysis, utterances, raw_script, analysisFor, segVars, dedVars>>

\* a script run with no button pressed
Rerun ==
    /\ run' = Idle("rerun", RenderRaises(analysis))
    /\ UNCHANGED <<analysis, utterances, focus_id, raw_script, analysisFor,
                   segVars, dedVars>>

Next ==
    \/ \E raw \in AppInputs, hasKey \in BOOLEAN, provider \in ProviderOutcomes :
           Analyze(raw, hasKey, provider)
    \/ \E idx \in 1..MaxRecords : Jump(idx)
    \/ Rerun

Spec == Init /\ [][Next]_vars

-----------------------------------------------------------------------------
(* What the claims say of the segmenter, stated over positions of the raw text *)

\* positions of the first non-blank character of each line that has one
LineStarts(raw) ==
    {p \in 1..Len(raw) :
        /\ ~IsSpace(raw[p])
        /\ \A q \in 1..(p - 1) :
               (\A j \in q..(p - 1) : ~IsLineBreak(raw[j])) => IsSpace(raw[q])}

KthSmallest(S, k) == CHOOSE x \in S : Cardinality({y \in S : y < x}) = k - 1

\* the k-th non-blank line, trimmed
TrimmedLine(raw, k) ==
    LET p == KthSmallest(LineStarts(raw), k)
        q == Max({e \in p..Len(raw) :
                     ~IsSpace(raw[e]) /\ \A j \in p..e : ~IsLineBreak(raw[j])})
    IN SubSeq(raw, p, q)

\* the number written by a string of decimal digits
RECURSIVE DecimalValue(_)
DecimalValue(ds) ==
    IF ds = <<>> THEN 0
    ELSE 10 * DecimalValue(SubSeq(ds, 1, Len(ds) - 1))
         + (CHOOSE n \in 0..9 : str(n) = <<ds[Len(ds)]>>)

IsDecimalOf(ds, k) ==
    /\ ds # <<>>
    /\ \A i \in 1..Len(ds) : IsDigit(ds[i])
    /\ (Len(ds) > 1 => ds[1] # "0")
    /\ DecimalValue(ds) = k

\* T is H:MM, HH:MM, H:MM:SS or HH:MM:SS
IsTimeToken(T) ==
    \E h \in {1, 2} : \E withSec \in BOOLEAN :
        /\ Len(T) = h + 3 + (IF withSec THEN 3 ELSE 0)
        /\ \A i \in 1..h : IsDigit(T[i])
        /\ T[h + 1] = ":"
        /\ IsDigit(T[h + 2]) /\ IsDigit(T[h + 3])
        /\ withSec => T[h + 4] = ":" /\ IsDigit(T[h + 5]) /\ IsDigit(T[h + 6])

\* t is s without its leading and trailing whitespace
IsTrimOf(t, s) ==
    \E a \in 0..Len(s) : \E b \in 0..(Len(s) - a) :
        /\ t = SubSeq(s, a + 1, Len(s) - b)
        /\ \A i \in 1..a : IsSpace(s[i])
        /\ \A i \in (Len(s) - b + 1)..Len(s) : IsSpace(s[i])
        /\ t # <<>> => ~IsSpace(t[1]) /\ ~IsSpace(t[Len(t)])

\* e such that L = "[" T "]" rest, T = L[2..e] a time token
BracketSplits(L) ==
    {e \in 2..(Len(L) - 1) :
        L[1] = "[" /\ IsTimeToken(SubSeq(L, 2, e)) /\ L[e + 1] = "]"}

\* <<e, d>> such that L = T ws dash ws rest, T = L[1..e] a time token, the dash at
\* d, with at least minWs whitespace characters before the dash and, unless the
\* dash ends the line, after it
DashSplits(L, minWs) ==
    {ed \in (1..Len(L)) \X (1..Len(L)) :
        /\ IsTimeToken(SubSeq(L, 1, ed[1]))
        /\ ed[2] >= ed[1] + 1 + minWs
        /\ \A i \in (ed[1] + 1)..(ed[2] - 1) : IsSpace(L[i])
        /\ IsDash(L[ed[2]])
        /\ ed[2] < Len(L) =>
               \A i \in (ed[2] + 1)..(ed[2] + minWs) : i <= Len(L) /\ IsSpace(L[i])}

\* time and text of the k-th utterance are what the two timestamp forms give
TimeAndTextAsStated(minWs) ==
    segDone =>
        \A k \in 1..Len(segOut) :
            k <= Cardinality(LineStarts(segRaw)) =>
                LET L == TrimmedLine(segRaw, k)
                    u == segOut[k]
                IN IF BracketSplits(L) # {}
                   THEN \E e \in BracketSplits(L) :
                            /\ u.time = Str(SubSeq(L, 2, e))
                            /\ IsTrimOf(u.text, From(L, e + 2))
                   ELSE IF DashSplits(L, minWs) # {}
                   THEN \E ed \in DashSplits(L, minWs) :
                            /\ u.time = Str(SubSeq(L, 1, ed[1]))
                            /\ IsTrimOf(u.text, From(L, ed[2] + 1))
                   ELSE u.time = None /\ u.text = L

\* C2: split_script_to_utterances returns one utterance per line that is non-empty
\* after trimming, in input order, the k-th with line_no = k and id = "u" + k.
C2_OnePerNonBlankLine ==
    segDone =>
        /\ Len(segOut) = Cardinality(LineStarts(segRaw))
        /\ \A k \in 1..Len(segOut) :
               /\ segOut[k].line_no = k
               /\ segOut[k].id # <<>>
               /\ Head(segOut[k].id) = "u"
               /\ IsDecimalOf(Tail(segOut[k].id), k)

\* two utterances separated by a blank line, which took no number
C2_Witness ==
    /\ segDone
    /\ Len(segOut) = 2
    /\ \E i \in 1..(Len(segRaw) - 1) : segRaw[i] = "\n" /\ segRaw[i + 1] = "\n"
    /\ segOut[2].id = <<"u", "2">>

\* C3 as stated: every returned utterance has a non-empty text after trimming.
C3_TextNeverEmpty ==
    segDone => \A k \in 1..Len(segOut) : strip(segOut[k].text) # <<>>

\* C3 as amended: an utterance whose line matched no timestamp pattern has a
\* non-empty trimmed text; the text is empty only when a timestamp matched and
\* the line is nothing but the timestamp marker and its separator.
C3_TextEmptyOnlyForBareTimestamp ==
    segDone =>
        \A k \in 1..Len(segOut) :
            LET u == segOut[k]
                L == TrimmedLine(segRaw, k)
            IN /\ IsTrimOf(u.text, u.text)
               /\ u.time = None => u.text # <<>>
               /\ u.text = <<>> =>
                      /\ u.time # None
                      /\ \/ \E e \in BracketSplits(L) : e + 1 = Len(L)
                         \/ \E ed \in DashSplits(L, 0) : ed[2] = Len(L)

\* a bare bracketed timestamp gave an utterance with an empty text, next to an
\* utterance without timestamp
C3_Witness ==
    /\ segDone
    /\ \E k \in 1..Len(segOut) : segOut[k].time # None /\ segOut[k].text = <<>>
    /\ \E k \in 1..Len(segOut) : segOut[k].time = None

\* C4 as stated: a bracketed time token gives time and the trimmed remainder; else
\* a bare token followed by whitespace, a dash and whitespace gives time and the
\* trimmed remainder; otherwise time is absent and text is the trimmed line.
C4_DashNeedsWhitespace == TimeAndTextAsStated(1)

\* C4 as amended: the whitespace on either side of the dash is optional.
C4_DashWhitespaceOptional == TimeAndTextAsStated(0)

\* a dashed timestamp with seconds and no whitespace around the dash was recognised
C4_Witness ==
    /\ segDone
    /\ Len(segOut) = 1
    /\ segRaw = <<"1", ":", "2", "3", ":", "4", "5", "-", "x">>
    /\ segOut[1].time = Str(<<"1", ":", "2", "3", ":", "4", "5">>)
    /\ segOut[1].text = <<"x">>

-----------------------------------------------------------------------------
(* What the claims say of the reconciler *)

HasId(r, id) == IsDict(r) /\ "utterance_id" \in DOMAIN r /\ r.utterance_id = Str(id)

\* the non-empty ids that occur in a list of verdict records
IdsIn(rs) ==
    {r.utterance_id.val : r \in {rs[k] : k \in {j \in 1..Len(rs) :
        /\ IsDict(rs[j])
        /\ "utterance_id" \in DOMAIN rs[j]
        /\ rs[j].utterance_id.tag = "str"
        /\ rs[j].utterance_id.val # <<>>}}}

Occurrences(rs, id) == {k \in 1..Len(rs) : HasId(rs[k], id)}

\* C1: the output holds exactly one record for each non-empty utterance_id of the
\* input, the last input record carrying it, and no record without such an id.
C1_LastOccurrenceWins ==
    dedDone =>
        /\ \A id \in IdsIn(dedIn) :
               /\ Cardinality(Occurrences(dedOut, id)) = 1
               /\ \A k \in Occurrences(dedOut, id) :
                      dedOut[k] = dedIn[Max(Occurrences(dedIn, id))]
        /\ \A k \in 1..Len(dedOut) : \E id \in IdsIn(dedIn) : HasId(dedOut[k], id)

\* an id occurred twice with different verdicts next to a record without id
C1_Witness ==
    /\ dedDone
    /\ \E id \in IdsIn(dedIn) :
           /\ Cardinality(Occurrences(dedIn, id)) = 2
           /\ dedIn[Min(Occurrences(dedIn, id))] # dedIn[Max(Occurrences(dedIn, id))]
    /\ \E k \in 1..Len(dedIn) : "utterance_id" \notin DOMAIN dedIn[k]
    /\ Len(dedOut) = 1

\* C8: the output is ordered by the first occurrence of each id in the input.
C8_OrderOfFirstOccurrence ==
    dedDone =>
        \A a, b \in 1..Len(dedOut) :
            a < b =>
                \E ia, ib \in IdsIn(dedIn) :
                    /\ HasId(dedOut[a], ia)
                    /\ HasId(dedOut[b], ib)
                    /\ Min(Occurrences(dedIn, ia)) < Min(Occurrences(dedIn, ib))

\* A, B, A' in the input: the record kept for A comes after B in the input
C8_Witness ==
    /\ dedDone
    /\ Len(dedIn) = 3
    /\ HasId(dedIn[1], U1) /\ HasId(dedIn[2], U2) /\ HasId(dedIn[3], U1)
    /\ dedIn[1] # dedIn[3]
    /\ dedOut = <<dedIn[3], dedIn[2]>>

-----------------------------------------------------------------------------
(* What the claims say of the session *)

\* the text of the last analyze run had no non-blank line
InputWasEmpty(text) == LineStarts(text) = {}

\* the model call of an analyze run on non-empty input failed: no credential, an
\* exception from the request, or a reply that is no JSON
CallFailed(r, text) ==
    /\ r.kind = "analyze"
    /\ ~InputWasEmpty(text)
    /\ \/ ~r.hasKey
       \/ r.provider.fails
       \/ ~json_loads(r.provider.text).ok

\* the provider replied to an analyze run on non-empty input
Replied(r, text) ==
    r.kind = "analyze" /\ ~InputWasEmpty(text) /\ r.hasKey /\ ~r.provider.fails

\* the expected schema: an object whose summary, if any, is an object and whose
\* results, if any, are a list of verdict records with string ids
IsVerdictRecord(v) ==
    IsDict(v) /\ ("utterance_id" \in DOMAIN v => v.utterance_id.tag \in {"str", "None"})

ConformsToSchema(v) ==
    /\ IsDict(v)
    /\ "summary" \in DOMAIN v => IsDict(v.summary)
    /\ "results" \in DOMAIN v =>
           /\ ~IsDict(v.results)
           /\ v.results.tag = "list"
           /\ \A k \in 1..Len(v.results.items) : IsVerdictRecord(v.results.items[k])

ReplyConforms(text) == json_loads(text).ok /\ ConformsToSchema(json_loads(text).value)

\* C5: an analyze action on input without utterances never calls the model, raises
\* no error, and leaves the stored analysis and focus_id unchanged.
C5_EmptyInputIsNoOp ==
    [][ (run'.kind = "analyze" /\ InputWasEmpty(raw_script')) =>
            /\ run'.calls = 0
            /\ ~run'.uncaught
            /\ run'.notice = "warning"
            /\ analysis' = analysis
            /\ focus_id' = focus_id ]_vars

\* a whitespace-only text was analyzed while an analysis and a focus were stored
C5_Witness ==
    /\ run.kind = "analyze"
    /\ raw_script = <<" ", "\n", " ">>
    /\ run.hasKey /\ ~run.provider.fails
    /\ run.notice = "warning"
    /\ analysis # None
    /\ focus_id = Str(U2)

\* C6: every failure of the model call is caught and turned into a notice: no
\* uncaught exception, at most one request (none without credential), and the
\* stored analysis and focus_id keep their values.
C6_CallFailureIsCaught ==
    [][ CallFailed(run', raw_script') =>
            /\ ~run'.uncaught
            /\ run'.notice = "error"
            /\ run'.calls <= 1
            /\ ~run'.hasKey => run'.calls = 0
            /\ analysis' = analysis
            /\ focus_id' = focus_id ]_vars

\* the request itself failed while an analysis and a focus were stored
C6_Witness ==
    /\ CallFailed(run, raw_script)
    /\ run.hasKey /\ run.provider.fails
    /\ run.calls = 1
    /\ run.notice = "error"
    /\ analysis # None
    /\ focus_id = Str(U1)

\* C7: a reply that does not parse as the expected schema is surfaced as an error
\* carrying the raw reply; it is never stored as the analysis, and neither the
\* reconciler nor the rendering fails on it.
C7_MalformedReplyIsRejected ==
    /\ (Replied(run, raw_script) /\ ~ReplyConforms(run.provider.text)) =>
           run.notice = "error" /\ run.noticeRaw = run.provider.text
    /\ analysis # None => ConformsToSchema(analysis)
    /\ ~run.renderRaised

\* C9: a stored analysis whose verdicts are rendered is the result of the model
\* call made on the currently stored utterances.
C9_AnalysisIsOfStoredUtterances ==
    (analysis # None /\ RenderedResults(analysis) # <<>>) => analysisFor = utterances

\* the ids of the verdict records of a stored analysis
AnalysisIds(a) ==
    IF ConformsToSchema(a) /\ "results" \in DOMAIN a THEN IdsIn(a.results.items) ELSE {}

FocusIsRenderedId ==
    focus_id = None \/ (focus_id.tag = "str" /\ focus_id.val \in AnalysisIds(analysis))

FocusStep ==
    /\ (Replied(run', raw_script') /\ json_loads(run'.provider.text).ok) =>
           focus_id' = None
    /\ (CallFailed(run', raw_script')
           \/ (run'.kind = "analyze" /\ InputWasEmpty(raw_script'))) =>
           focus_id' = focus_id
    /\ (focus_id' # focus_id /\ focus_id' # None) =>
           /\ run'.kind = "jump"
           /\ focus_id'.tag = "str"
           /\ focus_id'.val \in AnalysisIds(analysis)

\* C10: focus_id is None or the non-empty utterance_id of a record of the stored
\* analysis; a successful analyze resets it, only a jump sets it, and failed or
\* empty-input analyze actions leave it unchanged.
C10_FocusIsValid == []FocusIsRenderedId /\ [][FocusStep]_vars

\* a jump focused u2, the second rendered result, of an analysis with duplicates
C10_Witness ==
    /\ run.kind = "jump"
    /\ focus_id = Str(U2)
    /\ Len(RenderedResults(analysis)) = 2
    /\ Len(analysis.results.items) = 3

====
